---- MODULE Spec2Model ----
(***************************************************************************)
(* Model of crypto-bigint's UInt<LIMBS> (src/crypto-bigint/src/uint.rs).   *)
(*                                                                         *)
(* A UInt is a sequence of limbs, least significant first.  Code index i   *)
(* is position i + 1 of the sequence (At / Set below).  Every method is a  *)
(* pure function and is an operator here, computed loop by loop as the     *)
(* code computes it; every specification draws the operands in Init and    *)
(* applies the methods in its actions.                                     *)
(*                                                                         *)
(* Widths are scaled: a machine word of WordBits bits stands for u32, so   *)
(* u64 is 2 * WordBits and u128 is 4 * WordBits wide.  The byte and hex    *)
(* codecs keep real 8-bit bytes and draw the limb size in bytes.           *)
(***************************************************************************)
EXTENDS Integers, Sequences, FiniteSets, TLC

VARIABLES
    limb_bits,  \* width of Limb in this build (cfg target_pointer_width)
    LIMBS,      \* the const generic parameter of UInt<LIMBS>
    va,         \* first operand (its limbs)
    vb,         \* second operand (its limbs)
    inp,        \* further input of the operation (bytes, hex text, u128, ...)
    op,         \* the operation applied so far ("init" before any)
    out         \* what the operation returned

vars == <<limb_bits, LIMBS, va, vb, inp, op, out>>

\* ------------------------------------------------------------- bounds
MaxLimbs == 2
WordBits == 2

\* ------------------------------------------------------------ helpers
RECURSIVE Pow2(_)
Pow2(n) == IF n = 0 THEN 1 ELSE 2 * Pow2(n - 1)

At(s, i) == s[i + 1]
Set(s, i, v) == [s EXCEPT ![i + 1] = v]

RECURSIVE BitOr(_, _)
BitOr(p, q) ==
    IF p = 0 THEN q
    ELSE IF q = 0 THEN p
    ELSE (IF (p % 2 = 1) \/ (q % 2 = 1) THEN 1 ELSE 0) + 2 * BitOr(p \div 2, q \div 2)

LimbMod == Pow2(limb_bits)
LIMB_MAX == LimbMod - 1
LimbValues == 0 .. LIMB_MAX

\* [0; LIMBS]
ZeroLimbs(L) == [i \in 1 .. L |-> 0]

\* the number a limb sequence stands for (used by the properties only)
RECURSIVE ValueFrom(_, _)
ValueFrom(s, i) == IF i >= Len(s) THEN 0 ELSE At(s, i) + LimbMod * ValueFrom(s, i + 1)

Value(s) == ValueFrom(s, 0)

\* ------------------------------------------------- Limb primitives
limb_adc(p, q, carry) ==
    LET ret == p + q + carry IN <<ret % LimbMod, ret \div LimbMod>>

limb_sbb(p, q, borrow) ==
    LET ret == p - q - borrow
    IN  IF ret < 0 THEN <<ret + LimbMod, 1>> ELSE <<ret, 0>>

limb_mac(p, q, r, carry) ==
    LET ret == p + (q * r) + carry IN <<ret % LimbMod, ret \div LimbMod>>

limb_conditional_select(p, q, choice) == IF choice = 1 THEN q ELSE p

limb_ct_eq(p, q) == IF p = q THEN 1 ELSE 0

\* ------------------------------------------------------ constructors
from_u8(L, n) == Set(ZeroLimbs(L), 0, n)

ZERO(L) == from_u8(L, 0)
ONE(L) == from_u8(L, 1)
MAX(L) == [i \in 1 .. L |-> LIMB_MAX]

\* ------------------------------------------------------------ adc / sbb
\* mutant of adc_loop: `carry = c` is left out, the carry-in is used for every limb
RECURSIVE adc_loop_stale_carry(_, _, _, _, _)
adc_loop_stale_carry(self, rhs, limbs, carry, i) ==
    IF i < Len(self)
    THEN LET wc == limb_adc(At(self, i), At(rhs, i), carry)
         IN  adc_loop_stale_carry(self, rhs, Set(limbs, i, wc[1]), carry, i + 1)
    ELSE <<limbs, carry>>

RECURSIVE adc_loop(_, _, _, _, _)
adc_loop(self, rhs, limbs, carry, i) ==
    IF i < Len(self)
    THEN LET wc == limb_adc(At(self, i), At(rhs, i), carry)
         IN  adc_loop(self, rhs, Set(limbs, i, wc[1]), wc[2], i + 1)
    ELSE <<limbs, carry>>

adc(self, rhs, carry) == adc_loop(self, rhs, ZeroLimbs(Len(self)), carry, 0)

\* mutant of sbb_loop: `borrow = b` is left out, the borrow-in is used for every limb
RECURSIVE sbb_loop_stale_borrow(_, _, _, _, _)
sbb_loop_stale_borrow(self, rhs, limbs, borrow, i) ==
    IF i < Len(self)
    THEN LET wb == limb_sbb(At(self, i), At(rhs, i), borrow)
         IN  sbb_loop_stale_borrow(self, rhs, Set(limbs, i, wb[1]), borrow, i + 1)
    ELSE <<limbs, borrow>>

RECURSIVE sbb_loop(_, _, _, _, _)
sbb_loop(self, rhs, limbs, borrow, i) ==
    IF i < Len(self)
    THEN LET wb == limb_sbb(At(self, i), At(rhs, i), borrow)
         IN  sbb_loop(self, rhs, Set(limbs, i, wb[1]), wb[2], i + 1)
    ELSE <<limbs, borrow>>

sbb(self, rhs, borrow) == sbb_loop(self, rhs, ZeroLimbs(Len(self)), borrow, 0)

\* ------------------------------------------------------------ mul_wide
\* the inner while loop of row i; returns <<hi, lo, carry>>
RECURSIVE mul_inner(_, _, _, _, _, _, _)
mul_inner(self, rhs, i, j, carry, hi, lo) ==
    LET L == Len(self)
        k == i + j
    IN  IF j < L
        THEN IF k >= L
             THEN LET nc == limb_mac(At(hi, k - L), At(self, i), At(rhs, j), carry)
                  IN  mul_inner(self, rhs, i, j + 1, nc[2], Set(hi, k - L, nc[1]), lo)
             ELSE LET nc == limb_mac(At(lo, k), At(self, i), At(rhs, j), carry)
                  IN  mul_inner(self, rhs, i, j + 1, nc[2], hi, Set(lo, k, nc[1]))
        ELSE <<hi, lo, carry>>

\* mutant of mul_outer: the terminal carry of a row is not deposited in hi
RECURSIVE mul_outer_drop_carry(_, _, _, _, _)
mul_outer_drop_carry(self, rhs, i, hi, lo) ==
    IF i < Len(self)
    THEN LET row == mul_inner(self, rhs, i, 0, 0, hi, lo)
         IN  mul_outer_drop_carry(self, rhs, i + 1, row[1], row[2])
    ELSE <<hi, lo>>

\* the outer while loop; returns (hi, lo)
RECURSIVE mul_outer(_, _, _, _, _)
mul_outer(self, rhs, i, hi, lo) ==
    LET L == Len(self) IN
    IF i < L
    THEN LET row == mul_inner(self, rhs, i, 0, 0, hi, lo)
             j == L
         IN  mul_outer(self, rhs, i + 1, Set(row[1], i + j - L, row[3]), row[2])
    ELSE <<hi, lo>>

mul_wide(self, rhs) == mul_outer(self, rhs, 0, ZERO(Len(self)), ZERO(Len(self)))

\* --------------------------------------------------- derived operations
wrapping_add(self, rhs) == adc(self, rhs, 0)[1]

wrapping_sub(self, rhs) == sbb(self, rhs, 0)[1]

\* self.mul_wide(rhs).0 : the first component of (hi, lo)
wrapping_mul(self, rhs) == mul_wide(self, rhs)[1]

\* ConstantTimeEq: fold of acc & a.ct_eq(b) from Choice(1)
RECURSIVE ct_eq_fold(_, _, _, _)
ct_eq_fold(self, other, acc, i) ==
    IF i < Len(self)
    THEN ct_eq_fold(self, other,
                    IF acc = 1 /\ limb_ct_eq(At(self, i), At(other, i)) = 1 THEN 1 ELSE 0,
                    i + 1)
    ELSE acc

ct_eq(self, other) == ct_eq_fold(self, other, 1, 0)

is_zero(self) == ct_eq(self, ZERO(Len(self)))

\* CtOption::new(value, is_some)
CtOption(value, is_some) == [value |-> value, is_some |-> is_some]

checked_add(self, rhs) ==
    LET rc == adc(self, rhs, 0) IN CtOption(rc[1], limb_ct_eq(rc[2], 0))

checked_sub(self, rhs) ==
    LET ru == sbb(self, rhs, 0) IN CtOption(ru[1], limb_ct_eq(ru[2], 0))

checked_mul(self, rhs) ==
    LET hl == mul_wide(self, rhs) IN CtOption(hl[2], is_zero(hl[1]))

\* ConditionallySelectable: every destination limb reads source limb 0
conditional_select(p, q, choice) ==
    [i \in 1 .. Len(p) |-> limb_conditional_select(At(p, 0), At(q, 0), choice)]

\* ------------------------------------------- specification: arithmetic
Init ==
    /\ limb_bits = WordBits
    /\ LIMBS \in 1 .. MaxLimbs
    /\ va \in [1 .. LIMBS -> LimbValues]
    /\ vb \in [1 .. LIMBS -> LimbValues]
    /\ inp = [none |-> TRUE]
    /\ op = "init"
    /\ out = [none |-> TRUE]

Operands == <<limb_bits, LIMBS, va, vb, inp>>

Adc ==
    /\ op = "init"
    /\ \E carry \in {0, 1} :
         LET r == adc(va, vb, carry)
         IN  out' = [cin |-> carry, sum |-> r[1], carry |-> r[2]]
    /\ op' = "adc"
    /\ UNCHANGED Operands

Sbb ==
    /\ op = "init"
    /\ \E borrow \in {0, 1} :
         LET r == sbb(va, vb, borrow)
         IN  out' = [bin |-> borrow, diff |-> r[1], borrow |-> r[2]]
    /\ op' = "sbb"
    /\ UNCHANGED Operands

WrappingAdd ==
    /\ op = "init"
    /\ out' = [val |-> wrapping_add(va, vb)]
    /\ op' = "wrapping_add"
    /\ UNCHANGED Operands

\* a.wrapping_add(b).wrapping_sub(b): applied to the sum just computed
WrappingSub ==
    /\ op = "wrapping_add"
    /\ out' = [val |-> wrapping_sub(out.val, vb)]
    /\ op' = "wrapping_add.wrapping_sub"
    /\ UNCHANGED Operands

CheckedAdd ==
    /\ op = "init"
    /\ out' = checked_add(va, vb)
    /\ op' = "checked_add"
    /\ UNCHANGED Operands

CheckedSub ==
    /\ op = "init"
    /\ out' = checked_sub(va, vb)
    /\ op' = "checked_sub"
    /\ UNCHANGED Operands

ConditionalSelect ==
    /\ op = "init"
    /\ \E choice \in {0, 1} :
         out' = [choice |-> choice, val |-> conditional_select(va, vb, choice)]
    /\ op' = "conditional_select"
    /\ UNCHANGED Operands

CtEq ==
    /\ op = "init"
    /\ out' = [choice |-> ct_eq(va, vb)]
    /\ op' = "ct_eq"
    /\ UNCHANGED Operands

Next ==
    \/ Adc
    \/ Sbb
    \/ WrappingAdd
    \/ WrappingSub
    \/ CheckedAdd
    \/ CheckedSub
    \/ ConditionalSelect
    \/ CtEq

Spec == Init /\ [][Next]_vars

\* 2^(LIMBS * limb_bits), the modulus of the width
WidthMod == Pow2(LIMBS * limb_bits)

\* C5: adc(a, b, 0) returns (a + b) mod 2^(LIMBS * limb_bits) and a carry-out
\* that is 1 iff a + b >= 2^(LIMBS * limb_bits), else 0; checked_add(a, b) is
\* valid exactly when that carry-out is 0, and then its payload is a + b.
C5_AdcCarry ==
    LET total == Value(va) + Value(vb) IN
    /\ (op = "adc" /\ out.cin = 0) =>
          /\ Value(out.sum) = total % WidthMod
          /\ out.carry = (IF total >= WidthMod THEN 1 ELSE 0)
    /\ op = "checked_add" =>
          /\ (out.is_some = 1) <=> (total < WidthMod)
          /\ (out.is_some = 1) => Value(out.value) = total

\* C5 witness: an addition of more than one limb that carries out of the width
C5_Witness ==
    /\ op = "adc"
    /\ out.cin = 0
    /\ LIMBS >= 2
    /\ out.carry = 1
    /\ At(va, 0) + At(vb, 0) >= LimbMod

\* C10: a.wrapping_add(b).wrapping_sub(b) == a, whether or not the addition
\* overflowed.
C10_AddSubRoundTrip ==
    op = "wrapping_add.wrapping_sub" => out.val = va

\* C10 witness: the round trip of an addition that overflowed the width and
\* whose subtraction borrows between limbs
C10_Witness ==
    /\ op = "wrapping_add.wrapping_sub"
    /\ LIMBS >= 2
    /\ Value(va) + Value(vb) >= WidthMod
    /\ At(wrapping_add(va, vb), 0) < At(vb, 0)

\* C2: conditional_select(a, b, choice) sets every limb i to
\* select(a.limbs[i], b.limbs[i], choice): the result is a when choice is 0
\* and b when choice is 1.
C2_SelectIndexMatched ==
    op = "conditional_select" =>
        /\ \A i \in 0 .. LIMBS - 1 :
              At(out.val, i) = limb_conditional_select(At(va, i), At(vb, i), out.choice)
        /\ out.choice = 0 => out.val = va
        /\ out.choice = 1 => out.val = vb

\* -------------------------------------- specification: multiplication
MulWide ==
    /\ op = "init"
    /\ LET r == mul_wide(va, vb) IN out' = [hi |-> r[1], lo |-> r[2]]
    /\ op' = "mul_wide"
    /\ UNCHANGED Operands

WrappingMul ==
    /\ op = "init"
    /\ out' = [val |-> wrapping_mul(va, vb)]
    /\ op' = "wrapping_mul"
    /\ UNCHANGED Operands

CheckedMul ==
    /\ op = "init"
    /\ out' = checked_mul(va, vb)
    /\ op' = "checked_mul"
    /\ UNCHANGED Operands

NextMul ==
    \/ MulWide
    \/ WrappingMul
    \/ CheckedMul

SpecMul == Init /\ [][NextMul]_vars

\* C4: mul_wide(a, b) returns (hi, lo) with hi * 2^(LIMBS * limb_bits) + lo
\* == a * b as integers; in particular mul_wide(a, ONE) == (ZERO, a).
C4_MulWideProduct ==
    op = "mul_wide" =>
        /\ Value(out.hi) * WidthMod + Value(out.lo) = Value(va) * Value(vb)
        /\ vb = ONE(LIMBS) => (out.hi = ZERO(LIMBS) /\ out.lo = va)

\* C4 witness: a product of more than one limb whose rows end in a carry
C4_Witness ==
    /\ op = "mul_wide"
    /\ LIMBS >= 2
    /\ va = MAX(LIMBS)
    /\ vb = MAX(LIMBS)
    /\ out.hi # ZERO(LIMBS)

\* C1: wrapping_mul(a, b) is the low half of mul_wide(a, b), the value
\* (a * b) mod 2^(LIMBS * limb_bits).
C1_WrappingMulLow ==
    op = "wrapping_mul" =>
        /\ out.val = mul_wide(va, vb)[2]
        /\ Value(out.val) = (Value(va) * Value(vb)) % WidthMod

\* ------------------------------------------------- the width catalog
\* widths of the machine integers, scaled: WordBits stands for 32 bits
U32_BITS == WordBits
U64_BITS == 2 * WordBits
U128_BITS == 4 * WordBits

\* the two builds: cfg(target_pointer_width = "32") and ("64")
TargetLimbBits == {U32_BITS, U64_BITS}

\* impl_biguint_aliases!, impl_concat!, impl_split!: the widths in units of 64 bits
AliasUnits == {1, 2, 3, 4, 6, 7, 8, 12, 14, 16, 24, 28, 32, 48, 56, 64, 96, 128}
ConcatUnits == {1, 2, 3, 4, 6, 7, 8, 12, 14, 16, 24, 28, 32, 48, 64}
SplitUnits == {2, 3, 4, 6, 7, 8, 12, 14, 16, 24, 28, 32, 48, 56, 64, 96, 128}

\* nlimbs!(bits)
nlimbs(bits) == bits \div limb_bits

\* UInt<L> is an alias with Concat / Split implemented
HasConcat(L) == \E u \in ConcatUnits : nlimbs(u * U64_BITS) = L
HasSplit(L) == \E u \in SplitUnits : nlimbs(u * U64_BITS) = L

\* dst.copy_from_slice(src): panics unless the two slices have the same length
copy_from_slice(dst, src) ==
    IF Len(dst) = Len(src) THEN [ok |-> TRUE, val |-> src] ELSE [ok |-> FALSE, val |-> dst]

\* limbs.split_at(mid) : (limbs[..mid], limbs[mid..])
split_at(limbs, mid) ==
    << [i \in 1 .. mid |-> limbs[i]],
       [i \in 1 .. Len(limbs) - mid |-> limbs[mid + i]] >>

\* Split::split of UInt<{nlimbs!(bits)}>, Output = UInt<{nlimbs!(bits) / 2}>
split(self) ==
    LET hi_out == ZERO(Len(self) \div 2)
        lo_out == ZERO(Len(self) \div 2)
        parts == split_at(self, Len(self) \div 2)
        lo_in == parts[1]
        hi_in == parts[2]
        hi_copy == copy_from_slice(hi_out, hi_in)
        lo_copy == copy_from_slice(lo_out, lo_in)
    IN  IF ~hi_copy.ok THEN [ok |-> FALSE, hi |-> hi_out, lo |-> lo_out]
        ELSE IF ~lo_copy.ok THEN [ok |-> FALSE, hi |-> hi_copy.val, lo |-> lo_out]
        ELSE [ok |-> TRUE, hi |-> hi_copy.val, lo |-> lo_copy.val]

\* Concat::concat of UInt<{nlimbs!(bits)}>, Output = UInt<{nlimbs!(bits) * 2}>:
\* lo (the first self.limbs.len() limbs) is rhs, hi (the rest) is self
concat(self, rhs) ==
    LET output == ZERO(2 * Len(self))
        parts == split_at(output, Len(self))
        lo == copy_from_slice(parts[1], rhs)
        hi == copy_from_slice(parts[2], self)
    IN  [i \in 1 .. Len(output) |->
            IF i <= Len(self) THEN lo.val[i] ELSE hi.val[i - Len(self)]]

\* ------------------------------------------ specification: split/concat
MaxCatalogLimbs == 8

\* the limbs the operands are drawn from
SampleLimbs == {0, LIMB_MAX}

InitSplit ==
    /\ limb_bits \in TargetLimbBits
    /\ LIMBS \in {nlimbs(u * U64_BITS) : u \in AliasUnits} \cap (1 .. MaxCatalogLimbs)
    /\ va \in [1 .. LIMBS -> SampleLimbs]
    /\ vb \in [1 .. LIMBS -> SampleLimbs]
    /\ inp = [none |-> TRUE]
    /\ op = "init"
    /\ out = [none |-> TRUE]

\* x.split()
Split ==
    /\ op = "init"
    /\ HasSplit(LIMBS)
    /\ out' = split(va)
    /\ op' = "split"
    /\ UNCHANGED Operands

\* concat(split(x).0, split(x).1)
SplitThenConcat ==
    /\ op = "split"
    /\ out.ok
    /\ HasConcat(Len(out.hi))
    /\ out' = [val |-> concat(out.hi, out.lo)]
    /\ op' = "split.concat"
    /\ UNCHANGED Operands

\* hi.concat(&lo) with hi = va, lo = vb
Concat ==
    /\ op = "init"
    /\ HasConcat(LIMBS)
    /\ out' = [val |-> concat(va, vb)]
    /\ op' = "concat"
    /\ UNCHANGED Operands

\* split(concat(hi, lo))
ConcatThenSplit ==
    /\ op = "concat"
    /\ HasSplit(Len(out.val))
    /\ out' = split(out.val)
    /\ op' = "concat.split"
    /\ UNCHANGED Operands

NextSplit ==
    \/ Split
    \/ SplitThenConcat
    \/ Concat
    \/ ConcatThenSplit

SpecSplit == InitSplit /\ [][NextSplit]_vars

\* C3: for every width with split declared (odd limb counts included) and
\* every x, split(x) completes and concat(split(x).0, split(x).1) == x; for
\* every width with concat declared, split(concat(hi, lo)) == (hi, lo).
C3_SplitConcatInverse ==
    /\ op = "split" => out.ok
    /\ op = "split.concat" => out.val = va
    /\ op = "concat.split" => (out.ok /\ out.hi = va /\ out.lo = vb)

\* ------------------------------------------- small-integer conversions
\* from_u64, by cfg(target_pointer_width): two limbs on "32", one on "64"
from_u64(L, n) ==
    IF limb_bits = U32_BITS
    THEN \* const_assert!(LIMBS >= 2)
         IF L >= 2
         THEN [ok |-> TRUE,
               limbs |-> Set(Set(ZeroLimbs(L), 0, n % Pow2(U32_BITS)), 1, n \div Pow2(U32_BITS))]
         ELSE [ok |-> FALSE, limbs |-> ZeroLimbs(L)]
    ELSE \* const_assert!(LIMBS >= 1)
         IF L >= 1
         THEN [ok |-> TRUE, limbs |-> Set(ZeroLimbs(L), 0, n % LimbMod)]
         ELSE [ok |-> FALSE, limbs |-> ZeroLimbs(L)]

\* while k < src.len() { limbs[offset + k] = src[k]; k += 1 }
RECURSIVE copy_limbs(_, _, _, _)
copy_limbs(limbs, src, offset, k) ==
    IF k < Len(src)
    THEN copy_limbs(Set(limbs, offset + k, At(src, k)), src, offset, k + 1)
    ELSE limbs

\* mutant of from_u128: the high half is written at limbs[j], not limbs[i + j]
from_u128_overlap(L, n) ==
    LET lo == from_u64(nlimbs(U64_BITS), n % Pow2(U64_BITS))
        hi == from_u64(nlimbs(U64_BITS), n \div Pow2(U64_BITS))
    IN  IF L >= (U128_BITS \div limb_bits) /\ lo.ok /\ hi.ok
        THEN [ok |-> TRUE,
              limbs |-> copy_limbs(copy_limbs(ZeroLimbs(L), lo.limbs, 0, 0), hi.limbs, 0, 0)]
        ELSE [ok |-> FALSE, limbs |-> ZeroLimbs(L)]

\* from_u128: const_assert!(LIMBS >= 16 / LIMB_BYTES), lo and hi are U64 values
from_u128(L, n) ==
    LET lo == from_u64(nlimbs(U64_BITS), n % Pow2(U64_BITS))
        hi == from_u64(nlimbs(U64_BITS), n \div Pow2(U64_BITS))
        i == Len(lo.limbs)
    IN  IF L >= (U128_BITS \div limb_bits) /\ lo.ok /\ hi.ok
        THEN [ok |-> TRUE,
              limbs |-> copy_limbs(copy_limbs(ZeroLimbs(L), lo.limbs, 0, 0), hi.limbs, i, 0)]
        ELSE [ok |-> FALSE, limbs |-> ZeroLimbs(L)]

\* From<U64> for u64, by cfg(target_pointer_width)
u64_from(n) ==
    IF limb_bits = U32_BITS
    THEN BitOr(At(n, 0), At(n, 1) * Pow2(U32_BITS))
    ELSE At(n, 0)

\* From<U128> for u128
u128_from(n) ==
    LET hl == split(n)
    IN  IF hl.ok
        THEN [ok |-> TRUE, n |-> BitOr(u64_from(hl.hi) * Pow2(U64_BITS), u64_from(hl.lo))]
        ELSE [ok |-> FALSE, n |-> 0]

\* --------------------------------------------- specification: from_u128
U64_MAX == Pow2(U64_BITS) - 1
U128_MAX == Pow2(U128_BITS) - 1

InitU128 ==
    /\ limb_bits \in TargetLimbBits
    /\ LIMBS = nlimbs(U128_BITS)
    /\ va = ZERO(LIMBS)
    /\ vb = ZERO(LIMBS)
    /\ inp \in [n : 0 .. U128_MAX]
    /\ op = "init"
    /\ out = [none |-> TRUE]

\* U128::from_u128(n)
FromU128 ==
    /\ op = "init"
    /\ out' = from_u128(LIMBS, inp.n)
    /\ op' = "from_u128"
    /\ UNCHANGED Operands

\* U128::from_u128(n).split()
FromU128Split ==
    /\ op = "from_u128"
    /\ out.ok
    /\ HasSplit(Len(out.limbs))
    /\ out' = split(out.limbs)
    /\ op' = "from_u128.split"
    /\ UNCHANGED Operands

\* u128::from(U128::from_u128(n))
FromU128Into ==
    /\ op = "from_u128"
    /\ out.ok
    /\ out' = u128_from(out.limbs)
    /\ op' = "from_u128.into"
    /\ UNCHANGED Operands

NextU128 ==
    \/ FromU128
    \/ FromU128Split
    \/ FromU128Into

SpecU128 == InitU128 /\ [][NextU128]_vars

\* C9: U128::from_u128(n) holds the low 64 bits of n in its low limbs and the
\* high 64 bits in its high limbs; split() returns (high 64 bits, low 64 bits)
\* as U64 values; u128::from(U128::from_u128(n)) == n; from_u128(u128::MAX)
\* splits into two halves equal to U64::MAX.
C9_FromU128 ==
    LET half == nlimbs(U64_BITS)
        low64 == inp.n % Pow2(U64_BITS)
        high64 == inp.n \div Pow2(U64_BITS)
    IN
    /\ op = "from_u128" =>
          /\ out.ok
          /\ Len(out.limbs) = 2 * half
          /\ Value(split_at(out.limbs, half)[1]) = low64
          /\ Value(split_at(out.limbs, half)[2]) = high64
    /\ op = "from_u128.split" =>
          /\ out.ok
          /\ Len(out.hi) = half /\ Len(out.lo) = half
          /\ Value(out.hi) = high64
          /\ Value(out.lo) = low64
          /\ inp.n = U128_MAX => (out.hi = MAX(half) /\ out.lo = MAX(half))
    /\ op = "from_u128.into" => (out.ok /\ out.n = inp.n)

\* C9 witness: u128::MAX built on the 32-bit build (two limbs per half) and split
C9_Witness ==
    /\ op = "from_u128.split"
    /\ limb_bits = U32_BITS
    /\ inp.n = U128_MAX
    /\ out.hi = MAX(2)

\* ------------------------------------------------------ bytes and text
\* u8 and the ASCII codes the code names
BYTE_BITS == 8
ByteMod == Pow2(BYTE_BITS)
LIMB_BYTES == limb_bits \div BYTE_BITS

ASCII_0 == 48
ASCII_9 == 57
ASCII_A == 65
ASCII_F == 70
ASCII_a == 97
ASCII_f == 102
ASCII_SPACE == 32

Push(s, e) == [i \in 1 .. Len(s) + 1 |-> IF i <= Len(s) THEN s[i] ELSE e]

\* ---------------------------------------------------------- the Decoder
\* limbs under construction, index of the limb being filled, bit offset in
\* it, running accumulator; fed records the bytes as they were fed
Decoder_new(L) ==
    [ok |-> TRUE, limbs |-> ZeroLimbs(L), index |-> 0, shift |-> 0, acc |-> 0, fed |-> <<>>]

add_byte(d, byte) ==
    IF ~d.ok \/ d.index >= Len(d.limbs)
    THEN [d EXCEPT !.ok = FALSE]
    ELSE LET acc == BitOr(d.acc, byte * Pow2(d.shift))
             shift == d.shift + BYTE_BITS
         IN  IF shift = limb_bits
             THEN [d EXCEPT !.limbs = Set(@, d.index, acc), !.index = @ + 1,
                            !.shift = 0, !.acc = 0, !.fed = Push(@, byte)]
             ELSE [d EXCEPT !.acc = acc, !.shift = shift, !.fed = Push(@, byte)]

finish(d) ==
    [ok |-> d.ok /\ d.index = Len(d.limbs) /\ d.shift = 0, limbs |-> d.limbs, fed |-> d.fed]

\* a constructor whose const_assert! failed
ConstructionFailed(L) == [ok |-> FALSE, limbs |-> ZeroLimbs(L), fed |-> <<>>]

\* ------------------------------------------------- byte constructors
\* mutant of from_be_bytes_loop: the bytes are fed in index order, bytes[i - 1]
RECURSIVE from_be_bytes_forward(_, _, _, _)
from_be_bytes_forward(L, bytes, decoder, i) ==
    IF i < LIMB_BYTES * L
    THEN from_be_bytes_forward(L, bytes, add_byte(decoder, At(bytes, i)), i + 1)
    ELSE decoder

\* while i < LIMB_BYTES * LIMBS { i += 1; decoder.add_byte(bytes[bytes.len() - i]) }
RECURSIVE from_be_bytes_loop(_, _, _, _)
from_be_bytes_loop(L, bytes, decoder, i) ==
    IF i < LIMB_BYTES * L
    THEN from_be_bytes_loop(L, bytes, add_byte(decoder, At(bytes, Len(bytes) - (i + 1))), i + 1)
    ELSE decoder

from_be_bytes(L, bytes) ==
    IF Len(bytes) = LIMB_BYTES * L
    THEN finish(from_be_bytes_loop(L, bytes, Decoder_new(L), 0))
    ELSE ConstructionFailed(L)

\* while i < LIMB_BYTES * LIMBS { decoder.add_byte(bytes[i]); i += 1 }
RECURSIVE from_le_bytes_loop(_, _, _, _)
from_le_bytes_loop(L, bytes, decoder, i) ==
    IF i < LIMB_BYTES * L
    THEN from_le_bytes_loop(L, bytes, add_byte(decoder, At(bytes, i)), i + 1)
    ELSE decoder

from_le_bytes(L, bytes) ==
    IF Len(bytes) = LIMB_BYTES * L
    THEN finish(from_le_bytes_loop(L, bytes, Decoder_new(L), 0))
    ELSE ConstructionFailed(L)

\* Limb::to_be_bytes / Limb::to_le_bytes: byte k (from 0) of the array
limb_to_be_bytes(limb) ==
    [k \in 1 .. LIMB_BYTES |-> (limb \div Pow2(BYTE_BITS * (LIMB_BYTES - k))) % ByteMod]

limb_to_le_bytes(limb) ==
    [k \in 1 .. LIMB_BYTES |-> (limb \div Pow2(BYTE_BITS * (k - 1))) % ByteMod]

\* limbs.iter().rev().zip(out.chunks_exact_mut(LIMB_BYTES)): chunk c holds limb LIMBS - 1 - c
to_be_bytes(self) ==
    [n \in 1 .. LIMB_BYTES * Len(self) |->
        LET c == (n - 1) \div LIMB_BYTES
            k == (n - 1) % LIMB_BYTES
        IN  At(limb_to_be_bytes(At(self, Len(self) - 1 - c)), k)]

\* limbs.iter().zip(out.chunks_exact_mut(LIMB_BYTES)): chunk c holds limb c
to_le_bytes(self) ==
    [n \in 1 .. LIMB_BYTES * Len(self) |->
        LET c == (n - 1) \div LIMB_BYTES
            k == (n - 1) % LIMB_BYTES
        IN  At(limb_to_le_bytes(At(self, c)), k)]

\* ------------------------------------------------------------ formatting
\* the hexadecimal digits of a limb, most significant first, at least one
RECURSIVE hex_digits(_)
hex_digits(n) == IF n < 16 THEN <<n>> ELSE Push(hex_digits(n \div 16), n % 16)

digit_char(d, upper) ==
    IF d < 10 THEN ASCII_0 + d
    ELSE IF upper THEN ASCII_A + (d - 10) ELSE ASCII_a + (d - 10)

\* Formatter::pad_integral: f.width is 0 for None; the zero flag pads with
\* '0', otherwise the fill is ' ' and the number is right-aligned
pad_integral(f, buf) ==
    IF f.width = 0 \/ Len(buf) >= f.width
    THEN buf
    ELSE [i \in 1 .. f.width |->
            IF i <= f.width - Len(buf)
            THEN (IF f.zero THEN ASCII_0 ELSE ASCII_SPACE)
            ELSE buf[i - (f.width - Len(buf))]]

\* fmt::LowerHex / fmt::UpperHex for Limb, a primitive unsigned integer
limb_fmt_hex(limb, f, upper) ==
    LET digits == hex_digits(limb)
    IN  pad_integral(f, [i \in 1 .. Len(digits) |-> digit_char(digits[i], upper)])

\* for limb in self.limbs.iter().rev() { fmt(limb, f)? }
RECURSIVE fmt_hex_loop(_, _, _, _, _)
fmt_hex_loop(self, f, upper, i, text) ==
    IF i < Len(self)
    THEN LET field == limb_fmt_hex(At(self, Len(self) - 1 - i), f, upper)
         IN  fmt_hex_loop(self, f, upper, i + 1,
                 [n \in 1 .. Len(text) + Len(field) |->
                     IF n <= Len(text) THEN text[n] ELSE field[n - Len(text)]])
    ELSE text

LowerHex_fmt(self, f) == fmt_hex_loop(self, f, FALSE, 0, <<>>)
UpperHex_fmt(self, f) == fmt_hex_loop(self, f, TRUE, 0, <<>>)
Display_fmt(self, f) == UpperHex_fmt(self, f)

\* ---------------------------------------- specification: bytes and text
MaxLimbBytes == 2

\* the bytes the limbs of the operand are made of
SampleBytes == {0, 90, 255}

RECURSIVE LimbsOfBytes(_)
LimbsOfBytes(n) ==
    IF n = 0 THEN {0}
    ELSE {lo + ByteMod * hi : lo \in SampleBytes, hi \in LimbsOfBytes(n - 1)}

\* the formatter an integer is written with: "{}", "{:x}", "{:X}" have no
\* width; "{:4x}" and "{:04x}" have one
Formatters == [width : {0, 2 * LIMB_BYTES}, zero : BOOLEAN]

InitCodec ==
    /\ limb_bits \in {BYTE_BITS * n : n \in 1 .. MaxLimbBytes}
    /\ LIMBS \in 1 .. MaxLimbs
    /\ va \in [1 .. LIMBS -> LimbsOfBytes(LIMB_BYTES)]
    /\ vb = ZERO(LIMBS)
    /\ inp = [none |-> TRUE]
    /\ op = "init"
    /\ out = [none |-> TRUE]

ToBeBytes ==
    /\ op = "init"
    /\ out' = [bytes |-> to_be_bytes(va)]
    /\ op' = "to_be_bytes"
    /\ UNCHANGED Operands

\* from_be_bytes(to_be_bytes(x))
FromBeBytes ==
    /\ op = "to_be_bytes"
    /\ out' = [bytes |-> out.bytes, res |-> from_be_bytes(LIMBS, out.bytes)]
    /\ op' = "to_be_bytes.from_be_bytes"
    /\ UNCHANGED Operands

ToLeBytes ==
    /\ op = "init"
    /\ out' = [bytes |-> to_le_bytes(va)]
    /\ op' = "to_le_bytes"
    /\ UNCHANGED Operands

\* from_le_bytes(to_le_bytes(x))
FromLeBytes ==
    /\ op = "to_le_bytes"
    /\ out' = [bytes |-> out.bytes, res |-> from_le_bytes(LIMBS, out.bytes)]
    /\ op' = "to_le_bytes.from_le_bytes"
    /\ UNCHANGED Operands

FmtLowerHex ==
    /\ op = "init"
    /\ \E f \in Formatters : out' = [f |-> f, text |-> LowerHex_fmt(va, f)]
    /\ op' = "fmt_lower_hex"
    /\ UNCHANGED Operands

FmtUpperHex ==
    /\ op = "init"
    /\ \E f \in Formatters : out' = [f |-> f, text |-> UpperHex_fmt(va, f)]
    /\ op' = "fmt_upper_hex"
    /\ UNCHANGED Operands

FmtDisplay ==
    /\ op = "init"
    /\ \E f \in Formatters : out' = [f |-> f, text |-> Display_fmt(va, f)]
    /\ op' = "fmt_display"
    /\ UNCHANGED Operands

NextCodec ==
    \/ ToBeBytes
    \/ FromBeBytes
    \/ ToLeBytes
    \/ FromLeBytes
    \/ FmtLowerHex
    \/ FmtUpperHex
    \/ FmtDisplay

SpecCodec == InitCodec /\ [][NextCodec]_vars

\* the bytes of x, least significant first, read off the number itself
ByteOf(x, m) == (At(x, m \div LIMB_BYTES) \div Pow2(BYTE_BITS * (m % LIMB_BYTES))) % ByteMod

\* C7: from_be_bytes(to_be_bytes(x)) == x and from_le_bytes(to_le_bytes(x))
\* == x; the constructors feed the Decoder exactly LIMBS * limb_bytes bytes,
\* least significant byte first (big-endian input in reverse index order),
\* and then finish.
C7_BytesRoundTrip ==
    LET n == LIMBS * LIMB_BYTES IN
    /\ op = "to_be_bytes.from_be_bytes" =>
          /\ out.res.ok
          /\ out.res.limbs = va
          /\ Len(out.bytes) = n
          /\ Len(out.res.fed) = n
          /\ \A m \in 0 .. n - 1 :
                /\ At(out.res.fed, m) = At(out.bytes, n - 1 - m)
                /\ At(out.res.fed, m) = ByteOf(va, m)
    /\ op = "to_le_bytes.from_le_bytes" =>
          /\ out.res.ok
          /\ out.res.limbs = va
          /\ Len(out.bytes) = n
          /\ Len(out.res.fed) = n
          /\ \A m \in 0 .. n - 1 :
                /\ At(out.res.fed, m) = At(out.bytes, m)
                /\ At(out.res.fed, m) = ByteOf(va, m)

\* C7 witness: a big-endian round trip of several limbs of several bytes whose
\* bytes are not a palindrome
C7_Witness ==
    /\ op = "to_be_bytes.from_be_bytes"
    /\ LIMBS >= 2
    /\ LIMB_BYTES >= 2
    /\ out.res.ok
    /\ At(out.bytes, 0) # At(out.bytes, Len(out.bytes) - 1)
    /\ At(out.bytes, 0) # At(out.bytes, 1)

\* the digit of nibble k (from 0, least significant) of x, as upper or lower case
NibbleChar(x, k, upper) ==
    LET perLimb == 2 * LIMB_BYTES
    IN  digit_char((At(x, k \div perLimb) \div Pow2(4 * (k % perLimb))) % 16, upper)

\* C6: Display / UpperHex / LowerHex write the limbs most significant first,
\* each as exactly 2 * limb_bytes hex digits with leading zeros kept: the
\* output has exactly LIMBS * limb_bytes * 2 digits and ZERO is all '0'.
C6_FixedWidthHex ==
    LET n == LIMBS * LIMB_BYTES * 2 IN
    op \in {"fmt_lower_hex", "fmt_upper_hex", "fmt_display"} =>
        /\ Len(out.text) = n
        /\ \A i \in 1 .. Len(out.text) :
              i <= n => out.text[i] = NibbleChar(va, n - i, op # "fmt_lower_hex")
        /\ va = ZERO(LIMBS) => \A i \in 1 .. Len(out.text) : out.text[i] = ASCII_0

\* ------------------------------------------------------ hex constructors
\* one arm of the match of decode_hex_byte: the digit's value, or a failed
\* const_assert! for a byte that is no hexadecimal digit
hex_digit(b) ==
    IF ASCII_0 <= b /\ b <= ASCII_9 THEN [ok |-> TRUE, val |-> b - ASCII_0]
    ELSE IF ASCII_a <= b /\ b <= ASCII_f THEN [ok |-> TRUE, val |-> (10 + b) - ASCII_a]
    ELSE IF ASCII_A <= b /\ b <= ASCII_F THEN [ok |-> TRUE, val |-> (10 + b) - ASCII_A]
    ELSE [ok |-> FALSE, val |-> 0]

\* mutant of decode_hex_loop: `result <<= 4` is left out
RECURSIVE decode_hex_loop_no_shift(_, _, _)
decode_hex_loop_no_shift(bytes, i, result) ==
    IF i < 2
    THEN LET d == hex_digit(At(bytes, i))
         IN  IF d.ok
             THEN decode_hex_loop_no_shift(bytes, i + 1, BitOr(result, d.val))
             ELSE [ok |-> FALSE, val |-> 0]
    ELSE [ok |-> TRUE, val |-> result]

\* while i < 2 { result <<= 4; result |= match bytes[i] {...}; i += 1 }
RECURSIVE decode_hex_loop(_, _, _)
decode_hex_loop(bytes, i, result) ==
    IF i < 2
    THEN LET d == hex_digit(At(bytes, i))
         IN  IF d.ok
             THEN decode_hex_loop(bytes, i + 1, BitOr((result * 16) % ByteMod, d.val))
             ELSE [ok |-> FALSE, val |-> 0]
    ELSE [ok |-> TRUE, val |-> result]

decode_hex_byte(bytes) == decode_hex_loop(bytes, 0, 0)

\* while i < LIMB_BYTES * LIMBS * 2 { i += 2; offset = bytes.len() - i; ... }
RECURSIVE from_be_hex_loop(_, _, _, _)
from_be_hex_loop(L, bytes, decoder, i) ==
    IF i < LIMB_BYTES * L * 2
    THEN LET offset == Len(bytes) - (i + 2)
             byte == decode_hex_byte(<<At(bytes, offset), At(bytes, offset + 1)>>)
         IN  IF byte.ok
             THEN from_be_hex_loop(L, bytes, add_byte(decoder, byte.val), i + 2)
             ELSE [decoder EXCEPT !.ok = FALSE]
    ELSE decoder

from_be_hex(L, hex) ==
    IF Len(hex) = LIMB_BYTES * L * 2
    THEN finish(from_be_hex_loop(L, hex, Decoder_new(L), 0))
    ELSE ConstructionFailed(L)

\* while i < LIMB_BYTES * LIMBS * 2 { decode [bytes[i], bytes[i + 1]]; i += 2 }
RECURSIVE from_le_hex_loop(_, _, _, _)
from_le_hex_loop(L, bytes, decoder, i) ==
    IF i < LIMB_BYTES * L * 2
    THEN LET byte == decode_hex_byte(<<At(bytes, i), At(bytes, i + 1)>>)
         IN  IF byte.ok
             THEN from_le_hex_loop(L, bytes, add_byte(decoder, byte.val), i + 2)
             ELSE [decoder EXCEPT !.ok = FALSE]
    ELSE decoder

from_le_hex(L, hex) ==
    IF Len(hex) = LIMB_BYTES * L * 2
    THEN finish(from_le_hex_loop(L, hex, Decoder_new(L), 0))
    ELSE ConstructionFailed(L)

\* ------------------------------------------- specification: hex text
\* the characters texts are made of: digits of each range and the characters
\* next to the ends of each range ('/' ':' '@' 'G' '`' 'g'), and a space
BaseChars == {ASCII_0, ASCII_f, 55}
FirstChars == {ASCII_0, ASCII_9, ASCII_A, ASCII_F, ASCII_a, ASCII_f,
               ASCII_0 - 1, ASCII_9 + 1, ASCII_A - 1, ASCII_F + 1, ASCII_a - 1, ASCII_f + 1,
               ASCII_SPACE, 50}
SecondChars == {ASCII_F, 99, ASCII_f + 1}

\* texts of the expected length and up to two characters shorter or longer:
\* one character repeated, with one or two positions overwritten
HexTexts(expected) ==
    {[i \in 1 .. len |-> IF i = p1 THEN c1 ELSE IF i = p2 THEN c2 ELSE d] :
        len \in {expected - 2, expected - 1, expected, expected + 1, expected + 2},
        d \in BaseChars, c1 \in FirstChars, c2 \in SecondChars,
        p1 \in 1 .. expected, p2 \in 1 .. expected}

InitHex ==
    /\ limb_bits \in {BYTE_BITS * n : n \in 1 .. MaxLimbBytes}
    /\ LIMBS \in 1 .. MaxLimbs
    /\ va = ZERO(LIMBS)
    /\ vb = ZERO(LIMBS)
    /\ inp \in [hex : HexTexts(LIMBS * LIMB_BYTES * 2)]
    /\ op = "init"
    /\ out = [none |-> TRUE]

FromBeHex ==
    /\ op = "init"
    /\ out' = from_be_hex(LIMBS, inp.hex)
    /\ op' = "from_be_hex"
    /\ UNCHANGED Operands

FromLeHex ==
    /\ op = "init"
    /\ out' = from_le_hex(LIMBS, inp.hex)
    /\ op' = "from_le_hex"
    /\ UNCHANGED Operands

NextHex ==
    \/ FromBeHex
    \/ FromLeHex

SpecHex == InitHex /\ [][NextHex]_vars

\* the value of each hexadecimal digit, by table
HexTable ==
    [c \in {48, 49, 50, 51, 52, 53, 54, 55, 56, 57,
            65, 66, 67, 68, 69, 70, 97, 98, 99, 100, 101, 102} |->
        IF c <= 57 THEN c - 48 ELSE IF c <= 70 THEN c - 55 ELSE c - 87]

\* byte m (from 0, least significant) that a text of n digits stands for
HexByteBE(hex, m) == 16 * HexTable[hex[Len(hex) - 2 * m - 1]] + HexTable[hex[Len(hex) - 2 * m]]
HexByteLE(hex, m) == 16 * HexTable[hex[2 * m + 1]] + HexTable[hex[2 * m + 2]]

\* C8: from_be_hex / from_le_hex fail on a text whose length is not LIMBS *
\* limb_bytes * 2 or that holds a character outside [0-9a-fA-F]; on a text of
\* that length made of hex digits they yield the value whose bytes are the
\* digit pairs, 16 * hi + lo, upper and lower case alike (all 'f' gives MAX).
C8_HexConstruction ==
    LET hex == inp.hex
        n == LIMBS * LIMB_BYTES
        wellFormed == Len(hex) = 2 * n /\ \A i \in 1 .. Len(hex) : hex[i] \in DOMAIN HexTable
    IN
    op \in {"from_be_hex", "from_le_hex"} =>
        /\ out.ok <=> wellFormed
        /\ out.ok =>
              /\ Len(out.limbs) = LIMBS
              /\ \A m \in 0 .. n - 1 :
                    ByteOf(out.limbs, m) =
                        (IF op = "from_be_hex" THEN HexByteBE(hex, m) ELSE HexByteLE(hex, m))
              /\ \A j \in 0 .. LIMBS - 1 : At(out.limbs, j) < LimbMod
        /\ (wellFormed /\ \A i \in 1 .. Len(hex) : hex[i] \in {ASCII_f, ASCII_F}) =>
              out.limbs = MAX(LIMBS)

\* C8 witness: a big-endian text of the right length, several limbs long,
\* that mixes upper-case and lower-case digits and is decoded
C8_Witness ==
    /\ op = "from_be_hex"
    /\ LIMBS >= 2
    /\ out.ok
    /\ \E i \in 1 .. Len(inp.hex) : inp.hex[i] = ASCII_F
    /\ \E i \in 1 .. Len(inp.hex) : inp.hex[i] = 99
    /\ At(out.limbs, 0) # At(out.limbs, 1)

====
